---- MODULE Spec2Model ----
(***************************************************************************)
(* Verification model of the crawl engine of amore-agent-amazon            *)
(* (data-collector): hybrid pagination+scroll collection (RankScraper),    *)
(* navigation with rate limiting (BaseScraper.goto, RateLimiter), the      *)
(* orchestrator (DataCollectionPipeline) and the TTL cache (CacheManager). *)
(*                                                                         *)
(* Each component has its own specification over its own variables; the    *)
(* variables of the other components are held fixed by that specification. *)
(***************************************************************************)
EXTENDS Integers, Sequences, FiniteSets, TLC

(***************************************************************************)
(* Bounds of the model                                                     *)
(***************************************************************************)
\* largest max_rank (desired_count) a hybrid run is started with
MaxRank == 2
\* items per page used to plan the pages (50 in rank_scraper.py:176)
PageCapacity == 1
\* per-page item cap of _scroll_within_page (max_products=60 in rank_scraper.py:247)
MaxProducts == 2
\* scroll iterations per page (max_scrolls = 15 in rank_scraper.py:324)
MaxScrolls == 4

\* goto() calls one task makes
MaxGotos == 1
\* the clock runs from 0 to MaxTime ticks
MaxTime == 7
\* RATE_LIMIT["requests_per_minute"] (15) and ["requests_per_hour"] (200), scaled
RequestsPerMinute == 2
RequestsPerHour == 3
\* the windows timedelta(minutes=1) and timedelta(hours=1), in ticks
MinuteLen == 2
HourLen == 4
\* SCRAPER_SETTINGS["max_retries"] (5) and ["retry_delay"] (25 s), scaled
max_retries == 3
retry_delay == 1
\* SCRAPER_SETTINGS session_rotation_interval (40) and session_rotation_jitter (15), scaled
RotationInterval == 2
RotationJitter == 1

\* CacheManager's clock runs from CacheClockStart to CacheMaxTime ticks
CacheClockStart == 8
CacheMaxTime == 12
\* largest cache_ttl_hours a CacheManager is constructed with, in ticks
MaxTtl == 2

\* performance.parallel_categories (default 4) and product_enrichment.batch_size
\* (default 5) of scheduler_config.yaml, scaled
ParallelLimit == 2
EnrichBatch == 2
\* track_top_n of every configured category
TrackTopN == 2
\* pipeline runs (processes) that share the on-disk cache
MaxRuns == 2
\* the clock of the pipeline runs from 0 to PipeMaxTime ticks
PipeMaxTime == 2
\* cache.ttl_hours of scheduler_config.yaml, in ticks
PipeTtl == 1

(***************************************************************************)
(* Program constants                                                       *)
(***************************************************************************)
\* rank = None when no rank badge was found
NoRank == -1
max_retries_per_page == 3
\* product_enrichment.max_retries_per_product (default)
max_retries_per_product == 2
\* product_enrichment.top_n_per_category, scaled
top_n_per_category == 1
\* consecutive scroll iterations without a new item that end a page
NoChangeLimit == 3

(***************************************************************************)
(* State of one run of RankScraper._scrape_with_hybrid                     *)
(***************************************************************************)
VARIABLES
    hpc,             \* position in _scrape_with_hybrid
    max_rank,        \* argument max_rank
    all_rankings,    \* accumulated list
    page,            \* current page number
    retry,           \* index of the retry loop of the current page
    url,             \* URL form the next goto uses
    page_products,   \* result of _scroll_within_page for the current page
    rankings,        \* list local to _scroll_within_page
    previous_count,  \* local to _scroll_within_page
    no_change_count, \* local to _scroll_within_page
    scroll_attempt,  \* loop index of _scroll_within_page
    scrollStop,      \* why the last _scroll_within_page returned
    pagesVisited,    \* page numbers a goto was issued for
    exhaustedPages,  \* page numbers whose scrolling stopped on no new items
    pageLog,         \* the page_products of the pages collected so far, in page order
    result           \* the returned list, once returned

hybridVars == <<hpc, max_rank, all_rankings, page, retry, url, page_products,
                rankings, previous_count, no_change_count, scroll_attempt,
                scrollStop, pagesVisited, exhaustedPages, pageLog, result>>

(***************************************************************************)
(* State of the global RateLimiter, of the event loop, and of each task's  *)
(* call of BaseScraper.goto                                                *)
(***************************************************************************)
VARIABLES
    now,                    \* datetime.now(), in ticks
    minute_requests,        \* RateLimiter.minute_requests (deque of timestamps)
    hour_requests,          \* RateLimiter.hour_requests
    session_request_count,  \* RateLimiter.session_request_count
    rotation_threshold,     \* RateLimiter.rotation_threshold
    sessionGen,             \* number of initialize() calls: the browser session in use
    running,                \* the task that holds the event-loop thread, 0 when none
    gpc,                    \* per task: position in goto()
    attempt,                \* per task: loop index of goto()'s retry loop
    wait_until,             \* per task: goto()'s wait_until
    wake,                   \* per task: the time its sleep ends
    calls,                  \* per task: goto() calls made so far
    navs,                   \* per task: page.goto attempts issued in the current call
    backoffs,               \* per task: backoff sleeps taken in the current call
    recs,                   \* per task: record_request() calls of the current call
    gotoResult,             \* per task: what goto() returned, until its caller resumes
    transientOnly,          \* per task: every failed attempt of the current call was a 503 or a timeout
    lastOutcome             \* per task: how the latest attempt of the current call ended

limiterVars == <<minute_requests, hour_requests, session_request_count, rotation_threshold>>
taskVars == <<gpc, attempt, wait_until, wake, calls, navs, backoffs, recs, gotoResult,
              transientOnly, lastOutcome>>
navVars == <<now, limiterVars, sessionGen, running, taskVars>>

navRest == <<limiterVars, sessionGen, running, taskVars>>

(***************************************************************************)
(* State of the CacheManager                                               *)
(***************************************************************************)
VARIABLES
    cache_data,   \* CacheManager.cache_data: key -> {"data", "cached_at"}
    cache_ttl,    \* CacheManager.cache_ttl
    lastOp,       \* the last CacheManager call, its result, and the call before it
    lastSet       \* per key: time and payload of its last set() not undone by clear_all()

cacheVars == <<cache_data, cache_ttl, lastOp, lastSet>>

(***************************************************************************)
(* State of DataCollectionPipeline: collect_rankings and                   *)
(* enrich_ranked_products                                                  *)
(***************************************************************************)
VARIABLES
    ppc,         \* position in run_full_pipeline
    runs,        \* pipeline runs started
    strategy,    \* product_enrichment.strategy
    batch,       \* index of the first task of the current batch
    cpc,         \* per category: position of its scrape_category task
    hyb,         \* per category: locals of its _scrape_with_hybrid run
    shown,       \* the category whose listing the RankScraper's page shows
    ranks,       \* collected_data["ranks"]
    taskResult,  \* per category: what scrape_category returned
    toEnrich,    \* asins_to_enrich
    epc,         \* per ASIN: position of its enrich_single_product task
    eattempt,    \* per ASIN: loop index of the retry loop
    collected_products  \* collected_data["products"]

pipeVars == <<ppc, runs, strategy, batch, cpc, hyb, shown, ranks, taskResult,
              toEnrich, epc, eattempt, collected_products>>

(***************************************************************************)
(* State of a RateLimiter driven through its public methods, and of the    *)
(* scraper sessions opened with "async with"                               *)
(***************************************************************************)
VARIABLES
    recorded,    \* record_request() calls since construction or the last reset_session_count()
    limCall,     \* the last RateLimiter method called
    spc,         \* per scraper: position in __aenter__ / the with-body / __aexit__
    handles,     \* per scraper: self.playwright, self.browser, self.context, self.page
    sstep,       \* per scraper: the next step of initialize() or close()
    closeLog,    \* per scraper: what close() logged
    closedFrom,  \* per scraper: where the with-body was when __aexit__ ran
    reqs         \* per scraper: requests recorded through its current session

(***************************************************************************)
(* State of one RankScraper.scrape call, and of the AutomatedDataCollector *)
(* with the jobs its scheduler runs                                        *)
(***************************************************************************)
VARIABLES
    scrapePos,        \* position in RankScraper.scrape
    scrapeArgs,       \* the arguments of the current scrape call, as the caller wrote them
    scrapeMethod,     \* the collection method the last scrape call ran
    scrapeCalls,      \* scrape calls made so far
    retry_count,      \* AutomatedDataCollector.retry_count
    jpc,              \* per job: position in run_data_collection / _handle_failure
    execs,            \* per job: pipeline executions of its current invocation
    notified,         \* per job: failure notifications of its current invocation
    jobOutcome,       \* per job: how its last invocation ended
    fired,            \* per job: invocations started
    run_on_startup,   \* performance.run_on_startup
    retry_on_failure, \* retry.retry_on_failure
    execution_mode    \* schedule.execution_mode

scrapeVars == <<scrapePos, scrapeArgs, scrapeMethod, scrapeCalls>>
schedVars == <<retry_count, jpc, execs, notified, jobOutcome, fired,
               run_on_startup, retry_on_failure, execution_mode>>
auxVars == <<scrapeVars, schedVars>>

limiterApiVars == <<recorded, limCall>>
sessionVars == <<spc, handles, sstep, closeLog, closedFrom>>
objVars == <<limiterApiVars, sessionVars, reqs, auxVars>>

vars == <<hybridVars, navVars, cacheVars, pipeVars, objVars>>

\* what each component's actions leave alone
notHybrid == <<navVars, cacheVars, pipeVars, objVars>>
notNav == <<hybridVars, cacheVars, pipeVars, objVars>>
notCache == <<hybridVars, navRest, pipeVars, objVars>>
notPipe == <<hybridVars, navRest, cache_ttl, lastOp, lastSet, objVars>>
notLimiter == <<hybridVars, sessionGen, running, taskVars, cacheVars, pipeVars, sessionVars, reqs,
                auxVars>>
notSession == <<hybridVars, navVars, cacheVars, pipeVars, limiterApiVars, reqs, auxVars>>
notShared == <<hybridVars, sessionGen, running, taskVars, cacheVars, pipeVars, limiterApiVars,
               sstep, closeLog, closedFrom, auxVars>>
notScrape == <<hybridVars, navVars, cacheVars, pipeVars, limiterApiVars, sessionVars, reqs,
               schedVars>>
notSched == <<hybridVars, navVars, cacheVars, pipeVars, limiterApiVars, sessionVars, reqs,
              scrapeVars>>

\* the scrapers one process opens side by side ("async with ProductScraper() as
\* product_scraper, ReviewScraper() as review_scraper")
Scrapers == {"product_scraper", "review_scraper"}
\* the four fields of BaseScraper, in the order initialize() sets them
InitOrder == <<"playwright", "browser", "context", "page">>
\* the same fields in the order close() closes them
CloseOrder == <<"page", "context", "browser", "playwright">>
Handles == {"playwright", "browser", "context", "page"}

\* a RateLimiter nobody has called yet
LimiterApiIdle == recorded = 0 /\ limCall = "none"

\* BaseScraper.__init__: every field is None
SessionInit ==
    /\ spc = [s \in Scrapers |-> "new"]
    /\ handles = [s \in Scrapers |-> [h \in Handles |-> "None"]]
    /\ sstep = [s \in Scrapers |-> 1]
    /\ closeLog = [s \in Scrapers |-> "none"]
    /\ closedFrom = [s \in Scrapers |-> "none"]

\* no session has recorded a request
NoRequests == reqs = [s \in Scrapers |-> 0]

\* the jobs AutomatedDataCollector.start() adds to its scheduler
Jobs == {"daily_data_collection", "startup_collection"}

\* the arguments of a scrape call nobody made
NoArgs == [category |-> "", max_rank |-> 0, use_scroll |-> "omitted", use_hybrid |-> "omitted"]

\* no scrape call yet
ScrapeIdle ==
    /\ scrapePos = "idle"
    /\ scrapeArgs = NoArgs
    /\ scrapeMethod = "none"
    /\ scrapeCalls = 0

\* an AutomatedDataCollector that is not started
SchedIdle ==
    /\ retry_count = 0
    /\ jpc = [j \in Jobs |-> "idle"]
    /\ execs = [j \in Jobs |-> 0]
    /\ notified = [j \in Jobs |-> 0]
    /\ jobOutcome = [j \in Jobs |-> "none"]
    /\ fired = [j \in Jobs |-> 0]
    /\ run_on_startup = FALSE
    /\ retry_on_failure = TRUE
    /\ execution_mode = "full"

AuxIdle == ScrapeIdle /\ SchedIdle

ObjIdle == LimiterApiIdle /\ SessionInit /\ NoRequests /\ AuxIdle

(***************************************************************************)
(* Python values that are cached and collected                             *)
(***************************************************************************)
PyNone == [type |-> "None", items |-> <<>>, tag |-> "", asin |-> "", error |-> ""]
PyList(items) == [type |-> "list", items |-> items, tag |-> "", asin |-> "", error |-> ""]
\* a dict; `error` is "" when the dict has no "error" key
PyDict(tag, asin, error) ==
    [type |-> "dict", items |-> <<>>, tag |-> tag, asin |-> asin, error |-> error]
\* a truthiness test that takes every cached payload for falsy
Truthy_Never(v) == FALSE

\* the test "v is not None" in place of bool(v)
Truthy_NotNone(v) == v.type # "None"

\* bool(v): an empty list and None are falsy, a dict with keys is truthy
Truthy(v) == (v.type = "list" /\ v.items # <<>>) \/ v.type = "dict"

\* the enabled categories of categories.yaml, in configuration order
Cats == <<"c1", "c2">>
CatSet == {Cats[i] : i \in 1..Len(Cats)}
\* the ASINs product pages are scraped for
EnrichAsins == {"B0A", "B0B"}

NoResult == [success |-> FALSE, cached |-> FALSE, count |-> 0, error |-> "", returned |-> FALSE]
NoHybrid == [page |-> 0, retry |-> 0, acc |-> <<>>, failedPage |-> 0]

\* no pipeline
PipeIdle ==
    /\ ppc = "off"
    /\ runs = 0
    /\ strategy = "all"
    /\ batch = 0
    /\ cpc = [c \in CatSet |-> "pending"]
    /\ hyb = [c \in CatSet |-> NoHybrid]
    /\ shown = ""
    /\ ranks = <<>>
    /\ taskResult = [c \in CatSet |-> NoResult]
    /\ toEnrich = <<>>
    /\ epc = [a \in EnrichAsins |-> "pending"]
    /\ eattempt = [a \in EnrichAsins |-> 0]
    /\ collected_products = <<>>

\* the call before any call
NoCall == [op |-> "none", key |-> "", value |-> PyNone, at |-> 0]

\* no CacheManager in use
CacheIdle ==
    /\ cache_data = <<>>
    /\ cache_ttl = 0
    /\ lastOp = [op |-> "none", key |-> "", value |-> PyNone, at |-> 0, prev |-> NoCall]
    /\ lastSet = <<>>

\* the ASINs the site can show
ASINs == {"B0A", "B0B", "B0C"}
\* the rank _extract_product_data parses from the badge: none, or the number shown
DisplayedRanks == {NoRank, 1, 2}

\* the dict _extract_product_data returns, reduced to its dedup key and rank
Items == [asin : ASINs, rank : DisplayedRanks]

RECURSIVE SeqsUpTo(_, _)
SeqsUpTo(S, n) ==
    IF n = 0 THEN {<<>>}
    ELSE LET shorter == SeqsUpTo(S, n - 1)
         IN  shorter \cup {Append(s, x) : s \in {q \in shorter : Len(q) = n - 1}, x \in S}

\* what one call of _extract_products_from_page can return
Extractions == SeqsUpTo(Items, 2)

HasAsin(list, a) == \E i \in 1..Len(list) : list[i].asin = a

\* MergeUnique without the "not any(...)" test: rankings.extend(products)
MergeUnique_NoDedup(list, products) == list \o products

\* "if not any(p.asin == product.asin for p in rankings): rankings.append(product)"
RECURSIVE MergeUnique(_, _)
MergeUnique(list, products) ==
    IF products = <<>> THEN list
    ELSE LET p == Head(products)
         IN  MergeUnique(IF HasAsin(list, p.asin) THEN list ELSE Append(list, p),
                         Tail(products))

\* list[:n] left out
Truncate_Skipped(list, n) == list

\* list[:n]
Truncate(list, n) == SubSeq(list, 1, IF Len(list) < n THEN Len(list) ELSE n)

\* "for idx, product in enumerate(list, start=1): if product.rank is None: rank = idx"
AssignRanks(list) ==
    [i \in 1..Len(list) |->
        IF list[i].rank = NoRank THEN [list[i] EXCEPT !.rank = i] ELSE list[i]]

\* a page count that is one too many: max_rank // 50 + 1
MaxPage_OneMore(n) == n \div PageCapacity + 1

\* max_page = (max_rank + 49) // 50
MaxPage(n) == (n + (PageCapacity - 1)) \div PageCapacity

\* URL forms: page 1 is the base URL; page >= 2 carries pg=, and retries 1 and 2
\* use the trailing-slash form and the ref= form
UrlFor(p, r) ==
    IF p = 1 THEN "base"
    ELSE IF r = 1 THEN "slash" ELSE IF r = 2 THEN "ref" ELSE "pg"

\* no hybrid run
HybridIdle ==
    /\ hpc = "off"
    /\ max_rank = 0
    /\ all_rankings = <<>>
    /\ page = 1
    /\ retry = 0
    /\ url = "base"
    /\ page_products = <<>>
    /\ rankings = <<>>
    /\ previous_count = 0
    /\ no_change_count = 0
    /\ scroll_attempt = 0
    /\ scrollStop = "none"
    /\ pagesVisited = {}
    /\ exhaustedPages = {}
    /\ pageLog = <<>>
    /\ result = <<>>

(***************************************************************************)
(* RateLimiter                                                             *)
(***************************************************************************)
\* the concurrent tasks that share the scraper session and the global rate limiter
Tasks == {1, 2}
NoTask == 0

\* a threshold drawn with twice the configured jitter
RotationThresholds_Doubled ==
    {RotationInterval + 2 * j : j \in (0 - RotationJitter)..RotationJitter}

\* base + random.randint(-jitter, jitter)
RotationThresholds == (RotationInterval - RotationJitter)..(RotationInterval + RotationJitter)

\* a _clean_old_requests() that removes nothing
Purge_Keeps(q, cutoff) == q

\* "while q and q[0] < now - window: q.popleft()"
RECURSIVE Purge(_, _)
Purge(q, cutoff) ==
    IF q # <<>> /\ Head(q) < cutoff THEN Purge(Tail(q), cutoff) ELSE q

\* the two deques after _clean_old_requests()
CleanMinute == Purge(minute_requests, now - MinuteLen)
CleanHour == Purge(hour_requests, now - HourLen)

\* can_make_request(), evaluated on the cleaned deques
CanMakeRequest ==
    /\ ~(Len(CleanMinute) >= RequestsPerMinute)
    /\ ~(Len(CleanHour) >= RequestsPerHour)

\* a should_rotate_session() that turns true one request late
ShouldRotateSession_Strict == session_request_count > rotation_threshold

\* should_rotate_session()
ShouldRotateSession == session_request_count >= rotation_threshold

\* time.sleep(5) of the capacity poll, in ticks
PollTicks == 1
\* the human-like delay and the long pause of wait_if_needed(), in ticks
DelayTicks == 1
LongPauseTicks == 2
\* the extra asyncio.sleep after a connection error, in ticks
ExtraTicks == 1

RECURSIVE Pow2(_)
Pow2(n) == IF n = 0 THEN 1 ELSE 2 * Pow2(n - 1)

\* backoff_delay = retry_delay * (2 ** attempt)
BackoffDelay(a) == retry_delay * Pow2(a)

WaitStrategies == {"load", "networkidle"}

\* what one page.goto attempt can end in: a response with status 200, 503 or
\* another status (or no response at all), or an exception whose message holds
\* "Timeout", "net::ERR_ABORTED"/"ERR_FAILED", or neither
Outcomes == {"200", "503", "other_status", "timeout", "conn_error", "other_error"}
Responses == {"200", "503", "other_status"}

NavRestIdle ==
    /\ minute_requests = <<>>
    /\ hour_requests = <<>>
    /\ session_request_count = 0
    /\ rotation_threshold = RotationInterval
    /\ sessionGen = 0
    /\ running = NoTask
    /\ gpc = [t \in Tasks |-> "idle"]
    /\ attempt = [t \in Tasks |-> 0]
    /\ wait_until = [t \in Tasks |-> "load"]
    /\ wake = [t \in Tasks |-> 0]
    /\ calls = [t \in Tasks |-> MaxGotos]
    /\ navs = [t \in Tasks |-> 0]
    /\ backoffs = [t \in Tasks |-> 0]
    /\ recs = [t \in Tasks |-> 0]
    /\ gotoResult = [t \in Tasks |-> FALSE]
    /\ transientOnly = [t \in Tasks |-> TRUE]
    /\ lastOutcome = [t \in Tasks |-> "none"]

NavIdle == now = 0 /\ NavRestIdle

\* the module-level RateLimiter() and one initialize()d scraper that every task uses
NavInit ==
    /\ now = 0
    /\ minute_requests = <<>>
    /\ hour_requests = <<>>
    /\ session_request_count = 0
    /\ rotation_threshold \in RotationThresholds
    /\ sessionGen = 1
    /\ running = NoTask
    /\ gpc = [t \in Tasks |-> "idle"]
    /\ attempt = [t \in Tasks |-> 0]
    /\ wait_until = [t \in Tasks |-> "load"]
    /\ wake = [t \in Tasks |-> 0]
    /\ calls = [t \in Tasks |-> 0]
    /\ navs = [t \in Tasks |-> 0]
    /\ backoffs = [t \in Tasks |-> 0]
    /\ recs = [t \in Tasks |-> 0]
    /\ gotoResult = [t \in Tasks |-> FALSE]
    /\ transientOnly = [t \in Tasks |-> TRUE]
    /\ lastOutcome = [t \in Tasks |-> "none"]

\* time passes, whatever the tasks do
Tick ==
    /\ now < MaxTime
    /\ now' = now + 1
    /\ UNCHANGED <<limiterVars, sessionGen, running, taskVars>>
    /\ UNCHANGED notNav

\* a task calls goto(url, wait_until): it runs, without yielding, into wait_if_needed()
GotoCall(t, wu) ==
    /\ running = NoTask
    /\ gpc[t] = "idle" /\ calls[t] < MaxGotos
    /\ running' = t
    /\ gpc' = [gpc EXCEPT ![t] = "admit"]
    /\ attempt' = [attempt EXCEPT ![t] = 0]
    /\ wait_until' = [wait_until EXCEPT ![t] = wu]
    /\ calls' = [calls EXCEPT ![t] = @ + 1]
    /\ UNCHANGED <<now, limiterVars, sessionGen, wake, navs, backoffs, recs, gotoResult,
                   transientOnly, lastOutcome>>
    /\ UNCHANGED notNav

\* wait_if_needed(): can_make_request() is False, so time.sleep(5) and check again
AdmitDenied(t) ==
    /\ running = t /\ gpc[t] = "admit"
    /\ ~CanMakeRequest
    /\ minute_requests' = CleanMinute
    /\ hour_requests' = CleanHour
    /\ gpc' = [gpc EXCEPT ![t] = "rl_poll"]
    /\ wake' = [wake EXCEPT ![t] = now + PollTicks]
    /\ UNCHANGED <<now, session_request_count, rotation_threshold, sessionGen, running,
                   attempt, wait_until, calls, navs, backoffs, recs, gotoResult,
                   transientOnly, lastOutcome>>
    /\ UNCHANGED notNav

\* wait_if_needed(): admitted; time.sleep for the long pause (if drawn) and the delay
AdmitGranted(t, long_pause) ==
    /\ running = t /\ gpc[t] = "admit"
    /\ CanMakeRequest
    /\ minute_requests' = CleanMinute
    /\ hour_requests' = CleanHour
    /\ gpc' = [gpc EXCEPT ![t] = "rl_delay"]
    /\ wake' = [wake EXCEPT ![t] =
                   now + DelayTicks + (IF long_pause THEN LongPauseTicks ELSE 0)]
    /\ UNCHANGED <<now, session_request_count, rotation_threshold, sessionGen, running,
                   attempt, wait_until, calls, navs, backoffs, recs, gotoResult,
                   transientOnly, lastOutcome>>
    /\ UNCHANGED notNav

\* time.sleep(5) is over: back to the while of wait_if_needed()
PollWake(t) ==
    /\ running = t /\ gpc[t] = "rl_poll"
    /\ now >= wake[t]
    /\ gpc' = [gpc EXCEPT ![t] = "admit"]
    /\ wake' = [wake EXCEPT ![t] = 0]
    /\ UNCHANGED <<now, limiterVars, sessionGen, running, attempt, wait_until,
                   calls, navs, backoffs, recs, gotoResult, transientOnly, lastOutcome>>
    /\ UNCHANGED notNav

\* the delay is over: wait_if_needed() returns and attempt 0 awaits page.goto
DelayWake(t) ==
    /\ running = t /\ gpc[t] = "rl_delay"
    /\ now >= wake[t]
    /\ gpc' = [gpc EXCEPT ![t] = "nav"]
    /\ navs' = [navs EXCEPT ![t] = @ + 1]
    /\ running' = NoTask
    /\ wake' = [wake EXCEPT ![t] = 0]
    /\ UNCHANGED <<now, limiterVars, sessionGen, attempt, wait_until,
                   calls, backoffs, recs, gotoResult, transientOnly, lastOutcome>>
    /\ UNCHANGED notNav

\* record_request()
RecordRequest ==
    /\ minute_requests' = Append(minute_requests, now)
    /\ hour_requests' = Append(hour_requests, now)
    /\ session_request_count' = session_request_count + 1

\* goto() returns `value`; `r` is the number of record_request() calls it made
GotoReturn(t, value, r) ==
    /\ gpc' = [gpc EXCEPT ![t] = "returned"]
    /\ gotoResult' = [gotoResult EXCEPT ![t] = value]
    /\ recs' = [recs EXCEPT ![t] = r]
    /\ UNCHANGED <<attempt, wait_until, wake, navs, backoffs>>

\* NextAttempt without the bound of range(max_retries)
NextAttempt_Unbounded(t, extra, wu, r) ==
    /\ attempt' = [attempt EXCEPT ![t] = @ + 1]
    /\ gpc' = [gpc EXCEPT ![t] = "backoff"]
    /\ wake' = [wake EXCEPT ![t] = now]
    /\ backoffs' = [backoffs EXCEPT ![t] = @ + 1]
    /\ wait_until' = [wait_until EXCEPT ![t] = wu]
    /\ recs' = [recs EXCEPT ![t] = r]
    /\ UNCHANGED <<navs, gotoResult>>

\* NextAttempt that retries at once, without the backoff sleep
NextAttempt_NoSleep(t, extra, wu, r) ==
    IF attempt[t] + 1 < max_retries
    THEN /\ attempt' = [attempt EXCEPT ![t] = @ + 1]
         /\ gpc' = [gpc EXCEPT ![t] = "nav"]
         /\ navs' = [navs EXCEPT ![t] = @ + 1]
         /\ wait_until' = [wait_until EXCEPT ![t] = wu]
         /\ recs' = [recs EXCEPT ![t] = r]
         /\ UNCHANGED <<wake, backoffs, gotoResult>>
    ELSE GotoReturn(t, FALSE, r)

\* the next iteration of "for attempt in range(max_retries)": the backoff sleep
\* (after `extra` ticks slept before the continue), or the end of the loop;
\* `wu` is wait_until and `r` the records made, as the iteration leaves them
NextAttempt(t, extra, wu, r) ==
    IF attempt[t] + 1 < max_retries
    THEN /\ attempt' = [attempt EXCEPT ![t] = @ + 1]
         /\ gpc' = [gpc EXCEPT ![t] = "backoff"]
         /\ wake' = [wake EXCEPT ![t] = now + extra + BackoffDelay(attempt[t] + 1)]
         /\ backoffs' = [backoffs EXCEPT ![t] = @ + 1]
         /\ wait_until' = [wait_until EXCEPT ![t] = wu]
         /\ recs' = [recs EXCEPT ![t] = r]
         /\ UNCHANGED <<navs, gotoResult>>
    ELSE GotoReturn(t, FALSE, r)

\* page.goto returned a response: record_request(), then the status decides
NavResponse(t, status, simulate_human) ==
    /\ running = NoTask /\ gpc[t] = "nav"
    /\ RecordRequest
    /\ IF status = "200"
       THEN IF simulate_human
            THEN /\ gpc' = [gpc EXCEPT ![t] = "human"]
                 /\ recs' = [recs EXCEPT ![t] = @ + 1]
                 /\ UNCHANGED <<attempt, wait_until, wake, navs, backoffs, gotoResult>>
            ELSE GotoReturn(t, TRUE, recs[t] + 1)
       ELSE NextAttempt(t, 0, wait_until[t], recs[t] + 1)
    /\ transientOnly' = [transientOnly EXCEPT ![t] = @ /\ status \in {"200", "503"}]
    /\ lastOutcome' = [lastOutcome EXCEPT ![t] = status]
    /\ UNCHANGED <<now, rotation_threshold, sessionGen, running, calls>>
    /\ UNCHANGED notNav

\* page.goto raised: the message decides
NavException(t, kind) ==
    /\ running = NoTask /\ gpc[t] = "nav"
    /\ NextAttempt(t,
                   IF kind = "conn_error" /\ attempt[t] < max_retries - 1
                   THEN ExtraTicks ELSE 0,
                   IF kind = "timeout" /\ wait_until[t] = "networkidle" /\ attempt[t] = 0
                   THEN "load" ELSE wait_until[t],
                   recs[t])
    /\ transientOnly' = [transientOnly EXCEPT ![t] = @ /\ kind = "timeout"]
    /\ lastOutcome' = [lastOutcome EXCEPT ![t] = kind]
    /\ UNCHANGED <<now, limiterVars, sessionGen, running, calls>>
    /\ UNCHANGED notNav

\* the backoff (asyncio.sleep) is over: the attempt awaits page.goto
BackoffWake(t) ==
    /\ running = NoTask /\ gpc[t] = "backoff"
    /\ now >= wake[t]
    /\ gpc' = [gpc EXCEPT ![t] = "nav"]
    /\ navs' = [navs EXCEPT ![t] = @ + 1]
    /\ wake' = [wake EXCEPT ![t] = 0]
    /\ UNCHANGED <<now, limiterVars, sessionGen, running, attempt, wait_until,
                   calls, backoffs, recs, gotoResult, transientOnly, lastOutcome>>
    /\ UNCHANGED notNav

\* _simulate_human_behavior() is over: return True
HumanDone(t) ==
    /\ running = NoTask /\ gpc[t] = "human"
    /\ GotoReturn(t, TRUE, recs[t])
    /\ UNCHANGED <<now, limiterVars, sessionGen, running, calls, transientOnly, lastOutcome>>
    /\ UNCHANGED notNav

\* the caller of goto() resumes with the returned value; goto()'s locals are gone
CallerResumes(t) ==
    /\ running = NoTask /\ gpc[t] = "returned"
    /\ gpc' = [gpc EXCEPT ![t] = "idle"]
    /\ gotoResult' = [gotoResult EXCEPT ![t] = FALSE]
    /\ attempt' = [attempt EXCEPT ![t] = 0]
    /\ wait_until' = [wait_until EXCEPT ![t] = "load"]
    /\ navs' = [navs EXCEPT ![t] = 0]
    /\ backoffs' = [backoffs EXCEPT ![t] = 0]
    /\ recs' = [recs EXCEPT ![t] = 0]
    /\ transientOnly' = [transientOnly EXCEPT ![t] = TRUE]
    /\ lastOutcome' = [lastOutcome EXCEPT ![t] = "none"]
    /\ UNCHANGED <<now, limiterVars, sessionGen, running, wake, calls>>
    /\ UNCHANGED notNav

\* the steps of task t
TaskStep(t) ==
    \/ \E wu \in WaitStrategies : GotoCall(t, wu)
    \/ AdmitDenied(t)
    \/ \E lp \in BOOLEAN : AdmitGranted(t, lp)
    \/ PollWake(t)
    \/ DelayWake(t)
    \/ \E st \in Responses, sh \in BOOLEAN : NavResponse(t, st, sh)
    \/ \E k \in Outcomes \ Responses : NavException(t, k)
    \/ BackoffWake(t)
    \/ HumanDone(t)
    \/ CallerResumes(t)

NavNext ==
    \/ Tick
    \/ \E t \in Tasks, wu \in WaitStrategies : GotoCall(t, wu)
    \/ \E t \in Tasks : AdmitDenied(t)
    \/ \E t \in Tasks, lp \in BOOLEAN : AdmitGranted(t, lp)
    \/ \E t \in Tasks : PollWake(t)
    \/ \E t \in Tasks : DelayWake(t)
    \/ \E t \in Tasks, st \in Responses, sh \in BOOLEAN : NavResponse(t, st, sh)
    \/ \E t \in Tasks, k \in Outcomes \ Responses : NavException(t, k)
    \/ \E t \in Tasks : BackoffWake(t)
    \/ \E t \in Tasks : HumanDone(t)
    \/ \E t \in Tasks : CallerResumes(t)

\* the initial states: this component as constructed, the others not in use
NavStart == NavInit /\ HybridIdle /\ CacheIdle /\ PipeIdle /\ ObjIdle

SpecNav == NavStart /\ [][NavNext]_vars

(***************************************************************************)
(* Claims about the rate limiter and goto()                                *)
(***************************************************************************)
\* C3: after any sequence of RateLimiter operations, including goto() calls that
\* retry and goto() calls of concurrent tasks, the minute window never holds
\* more than requests_per_minute timestamps and the hour window never more
\* than requests_per_hour.
C3_WindowsWithinLimits ==
    /\ Len(minute_requests) <= RequestsPerMinute
    /\ Len(hour_requests) <= RequestsPerHour

\* C5: once the requests recorded for the current session have exceeded the
\* rotation threshold, the session is replaced (counter reset) before it
\* serves another goto(): no goto() call starts on the same session.
C5_RotatesAtThreshold ==
    [][(session_request_count > rotation_threshold /\ \E t \in Tasks : gpc[t] = "idle" /\ gpc'[t] = "admit")
         => (sessionGen' # sessionGen /\ session_request_count' = 0)]_vars

\* C13: a goto() call whose first two attempts end in a 503 or a timeout and
\* whose third attempt gets a 200 returns True, having slept exactly 2 backoffs.
C13_TwoBackoffsThenSuccess ==
    \A t \in Tasks :
        (gpc[t] = "returned" /\ navs[t] = 3 /\ transientOnly[t] /\ lastOutcome[t] = "200")
            => (gotoResult[t] = TRUE /\ backoffs[t] = 2)

\* such a call, with one 503 and one timeout before the 200
C13_Witness ==
    \E t \in Tasks :
        /\ gpc[t] = "returned" /\ navs[t] = 3 /\ transientOnly[t]
        /\ lastOutcome[t] = "200" /\ recs[t] = 2
        /\ gotoResult[t] = TRUE /\ backoffs[t] = 2

\* C14: whatever the attempts end in, a goto() call issues at most max_retries
\* navigation attempts and ends by returning a value: True exactly when its
\* last attempt got a 200, and False only after all max_retries attempts; the
\* call has no other way out.
C14_GotoBoundedAndReturns ==
    \A t \in Tasks :
        /\ navs[t] <= max_retries
        /\ attempt[t] < max_retries
        /\ gpc[t] \in {"idle", "admit", "rl_poll", "rl_delay", "nav", "backoff", "human",
                       "returned"}
        /\ gpc[t] = "returned" =>
               /\ navs[t] >= 1
               /\ gotoResult[t] = (lastOutcome[t] = "200")
               /\ ~gotoResult[t] => navs[t] = max_retries

\* a call that used all its attempts, the last one ending in an exception that
\* is neither a timeout nor a connection error, and returned False
C14_Witness ==
    \E t \in Tasks :
        /\ gpc[t] = "returned" /\ gotoResult[t] = FALSE
        /\ navs[t] = max_retries /\ lastOutcome[t] = "other_error"
        /\ ~transientOnly[t]

\* C20: a goto() call has recorded a request with the RateLimiter exactly when
\* its latest attempt ended in a 200 response: attempts ending in a 503, in
\* another status, in a timeout or in a connection error record nothing, so
\* the call records at most once.
C20_RecordsOnlySuccess ==
    \A t \in Tasks : recs[t] = IF lastOutcome[t] = "200" THEN 1 ELSE 0

\* C21: within one goto() call, an attempt made with wait_until "networkidle"
\* that ends in a timeout and is followed by another attempt leaves wait_until
\* at "load" for that next attempt, whichever attempt of the call it was; and
\* once the call's wait_until is "load" it stays "load" until the call is over.
C21_DowngradeOnAnyTimeout ==
    [][\A t \in Tasks :
          /\ (gpc[t] = "nav" /\ wait_until[t] = "networkidle"
                 /\ lastOutcome'[t] = "timeout" /\ gpc'[t] = "backoff")
                => wait_until'[t] = "load"
          /\ (gpc[t] \notin {"idle", "returned"} /\ wait_until[t] = "load")
                => wait_until'[t] = "load"]_vars

\* a task sleeps inside wait_if_needed(): the capacity poll, or the long pause
\* and human-like delay
InLimiterSleep(t) == gpc[t] \in {"rl_poll", "rl_delay"} /\ now < wake[t]

\* the event loop has something to resume task u with: its task was created and
\* has not run yet, its asyncio.sleep is over, or its awaited page operation
\* can complete
Resumable(u) ==
    \/ gpc[u] = "idle" /\ calls[u] < MaxGotos
    \/ gpc[u] = "backoff" /\ now >= wake[u]
    \/ gpc[u] \in {"nav", "human", "returned"}

\* C8: while one task sleeps in a RateLimiter delay, the other tasks can still
\* take steps; the delay blocks only the task that asked for admission.
C8_DelayBlocksOnlyIssuer ==
    \A t, u \in Tasks :
        (t # u /\ InLimiterSleep(t) /\ Resumable(u)) => ENABLED TaskStep(u)

\* the same program with its scheduling: the clock advances, and a task that
\* can take a step (the thread inside wait_if_needed(), a task the event loop
\* can resume) takes one
NavLiveStart == NavStart /\ rotation_threshold = RotationInterval

\* every goto() call of the scrapers leaves wait_until at its default, "load"
NavLiveNext ==
    \/ Tick
    \/ \E t \in Tasks : GotoCall(t, "load")
    \/ \E t \in Tasks : AdmitDenied(t)
    \/ \E t \in Tasks, lp \in BOOLEAN : AdmitGranted(t, lp)
    \/ \E t \in Tasks : PollWake(t)
    \/ \E t \in Tasks : DelayWake(t)
    \/ \E t \in Tasks, st \in Responses, sh \in BOOLEAN : NavResponse(t, st, sh)
    \/ \E t \in Tasks, k \in Outcomes \ Responses : NavException(t, k)
    \/ \E t \in Tasks : BackoffWake(t)
    \/ \E t \in Tasks : HumanDone(t)
    \/ \E t \in Tasks : CallerResumes(t)

SpecNavLive ==
    /\ NavLiveStart
    /\ [][NavLiveNext]_vars
    /\ WF_vars(Tick)
    /\ \A t \in Tasks : WF_vars(TaskStep(t))

\* task t is inside the "while not self.can_make_request()" loop of wait_if_needed()
AwaitingAdmission(t) == running = t /\ gpc[t] \in {"admit", "rl_poll"}

\* the clock of the model stops at MaxTime: the timestamps now in the windows
\* leave room for a request one poll interval before that, and a poll sleep
\* already under way ends within the clock
RoomByLastPoll(t) ==
    /\ Cardinality({i \in DOMAIN minute_requests :
                        minute_requests[i] >= MaxTime - PollTicks - MinuteLen})
           < RequestsPerMinute
    /\ Cardinality({i \in DOMAIN hour_requests :
                        hour_requests[i] >= MaxTime - PollTicks - HourLen})
           < RequestsPerHour
    /\ gpc[t] = "rl_poll" => wake[t] <= MaxTime

\* C24: a task that asks for admission while a window is at capacity is not
\* turned away: it polls, purging the windows, and as time advances it is
\* admitted (it leaves the loop for the delay); this holds for each of the
\* concurrent tasks.
C24_AdmissionEventuallyGranted ==
    \A t \in Tasks :
        (AwaitingAdmission(t) /\ RoomByLastPoll(t)) ~> (gpc[t] = "rl_delay")

\* a task was denied, slept the poll interval, and the windows will have room
C24_Witness ==
    \E t \in Tasks :
        /\ gpc[t] = "rl_poll" /\ running = t /\ now < wake[t] /\ RoomByLastPoll(t)
        /\ \E u \in Tasks \ {t} : gpc[u] \in {"backoff", "nav"}

(***************************************************************************)
(* RankScraper._scrape_with_hybrid                                         *)
(***************************************************************************)
HybridInit ==
    /\ hpc = "loop"
    /\ max_rank \in 0..MaxRank
    /\ all_rankings = <<>>
    /\ page = 1
    /\ retry = 0
    /\ url = "base"
    /\ page_products = <<>>
    /\ rankings = <<>>
    /\ previous_count = 0
    /\ no_change_count = 0
    /\ scroll_attempt = 0
    /\ scrollStop = "none"
    /\ pagesVisited = {}
    /\ exhaustedPages = {}
    /\ pageLog = <<>>
    /\ result = <<>>

scrollLocals == <<rankings, previous_count, no_change_count, scroll_attempt, scrollStop,
                  exhaustedPages>>

\* while page <= max_page and len(all_rankings) < max_rank: start the page's retry loop
BeginPage ==
    /\ UNCHANGED notHybrid
    /\ hpc = "loop"
    /\ page <= MaxPage(max_rank) /\ Len(all_rankings) < max_rank
    /\ retry' = 0
    /\ page_products' = <<>>
    /\ url' = UrlFor(page, 0)
    /\ hpc' = "retry"
    /\ UNCHANGED <<max_rank, all_rankings, page, scrollLocals, pagesVisited, pageLog, result>>

\* the while condition is false: fall through to the truncation
EndLoop ==
    /\ UNCHANGED notHybrid
    /\ hpc = "loop"
    /\ ~(page <= MaxPage(max_rank) /\ Len(all_rankings) < max_rank)
    /\ hpc' = "finish"
    /\ UNCHANGED <<max_rank, all_rankings, page, retry, url, page_products,
                   scrollLocals, pagesVisited, pageLog, result>>

\* the next iteration of "for retry in range(max_retries_per_page)" after a continue
NextRetry(r) ==
    /\ retry' = r
    /\ url' = IF r < max_retries_per_page /\ page > 1 /\ r \in {1, 2}
              THEN UrlFor(page, r) ELSE url

\* goto(url) returned False: continue
GotoFailed ==
    /\ UNCHANGED notHybrid
    /\ hpc = "retry" /\ retry < max_retries_per_page
    /\ pagesVisited' = pagesVisited \cup {page}
    /\ NextRetry(retry + 1)
    /\ UNCHANGED <<hpc, max_rank, all_rankings, page, page_products, scrollLocals, pageLog, result>>

\* goto succeeded, but neither the grid selector nor an alternative was found: continue
SelectorNotFound ==
    /\ UNCHANGED notHybrid
    /\ hpc = "retry" /\ retry < max_retries_per_page
    /\ pagesVisited' = pagesVisited \cup {page}
    /\ NextRetry(retry + 1)
    /\ UNCHANGED <<hpc, max_rank, all_rankings, page, page_products, scrollLocals, pageLog, result>>

\* goto succeeded and the grid was found: enter _scroll_within_page
PageLoaded ==
    /\ UNCHANGED notHybrid
    /\ hpc = "retry" /\ retry < max_retries_per_page
    /\ pagesVisited' = pagesVisited \cup {page}
    /\ rankings' = <<>>
    /\ previous_count' = 0
    /\ no_change_count' = 0
    /\ scroll_attempt' = 0
    /\ scrollStop' = "none"
    /\ hpc' = "scroll"
    /\ UNCHANGED <<max_rank, all_rankings, page, retry, url, page_products,
                   exhaustedPages, pageLog, result>>

\* one iteration of the scroll loop of _scroll_within_page
ScrollStep(current_products) ==
    /\ UNCHANGED notHybrid
    /\ hpc = "scroll" /\ scroll_attempt < MaxScrolls
    /\ LET merged == MergeUnique(rankings, current_products)
           nc == IF Len(merged) = previous_count THEN no_change_count + 1 ELSE 0
       IN  /\ rankings' = merged
           /\ IF Len(merged) >= MaxProducts
              THEN /\ scrollStop' = "cap"
                   /\ hpc' = "scrolled"
                   /\ UNCHANGED <<previous_count, no_change_count, scroll_attempt,
                                  exhaustedPages>>
              ELSE IF nc >= NoChangeLimit
              THEN /\ scrollStop' = "exhausted"
                   /\ exhaustedPages' = exhaustedPages \cup {page}
                   /\ no_change_count' = nc
                   /\ hpc' = "scrolled"
                   /\ UNCHANGED <<previous_count, scroll_attempt>>
              ELSE /\ no_change_count' = nc
                   /\ previous_count' = Len(merged)
                   /\ scroll_attempt' = scroll_attempt + 1
                   /\ UNCHANGED <<hpc, scrollStop, exhaustedPages>>
    /\ UNCHANGED <<max_rank, all_rankings, page, retry, url, page_products,
                   pagesVisited, pageLog, result>>

\* range(max_scrolls) is used up
ScrollsUsedUp ==
    /\ UNCHANGED notHybrid
    /\ hpc = "scroll" /\ scroll_attempt >= MaxScrolls
    /\ scrollStop' = "max_scrolls"
    /\ hpc' = "scrolled"
    /\ UNCHANGED <<max_rank, all_rankings, page, retry, url, page_products,
                   rankings, previous_count, no_change_count, scroll_attempt,
                   exhaustedPages, pagesVisited, pageLog, result>>

\* _scroll_within_page returned nothing: continue with the next retry
PageEmpty ==
    /\ UNCHANGED notHybrid
    /\ hpc = "scrolled" /\ rankings = <<>>
    /\ page_products' = <<>>
    /\ NextRetry(retry + 1)
    /\ hpc' = "retry"
    /\ UNCHANGED <<max_rank, all_rankings, page, scrollLocals, pagesVisited, pageLog, result>>

\* page_success: merge the page's products, then stop or move to the next page
PageCollected ==
    /\ UNCHANGED notHybrid
    /\ hpc = "scrolled" /\ rankings # <<>>
    /\ page_products' = rankings
    /\ pageLog' = Append(pageLog, rankings)
    /\ LET merged == MergeUnique(all_rankings, rankings)
       IN  /\ all_rankings' = merged
           /\ IF Len(merged) >= max_rank
              THEN hpc' = "finish" /\ page' = page
              ELSE hpc' = "loop" /\ page' = page + 1
    /\ UNCHANGED <<max_rank, retry, url, scrollLocals, pagesVisited, result>>

\* RetriesExhausted that gives up what the earlier pages yielded
RetriesExhausted_Discards ==
    /\ UNCHANGED notHybrid
    /\ hpc = "retry" /\ retry >= max_retries_per_page
    /\ hpc' = "finish"
    /\ all_rankings' = <<>>
    /\ UNCHANGED <<max_rank, page, retry, url, page_products,
                   scrollLocals, pagesVisited, pageLog, result>>

\* every retry of the page failed: break (page 1 and page >= 2 alike)
RetriesExhausted ==
    /\ UNCHANGED notHybrid
    /\ hpc = "retry" /\ retry >= max_retries_per_page
    /\ hpc' = "finish"
    /\ UNCHANGED <<max_rank, all_rankings, page, retry, url, page_products,
                   scrollLocals, pagesVisited, pageLog, result>>

\* all_rankings = all_rankings[:max_rank]; fill in missing ranks; return
ReturnRankings ==
    /\ UNCHANGED notHybrid
    /\ hpc = "finish"
    /\ all_rankings' = AssignRanks(Truncate(all_rankings, max_rank))
    /\ result' = all_rankings'
    /\ hpc' = "done"
    /\ UNCHANGED <<max_rank, page, retry, url, page_products, scrollLocals, pagesVisited,
                   pageLog>>

HybridNext ==
    \/ BeginPage
    \/ EndLoop
    \/ GotoFailed
    \/ SelectorNotFound
    \/ PageLoaded
    \/ \E cp \in Extractions : ScrollStep(cp)
    \/ ScrollsUsedUp
    \/ PageEmpty
    \/ PageCollected
    \/ RetriesExhausted
    \/ ReturnRankings

\* the initial states: this component as constructed, the others not in use
HybridStart == HybridInit /\ NavIdle /\ CacheIdle /\ PipeIdle /\ ObjIdle

SpecHybrid == HybridStart /\ [][HybridNext]_vars

(***************************************************************************)
(* Claims about hybrid collection                                          *)
(***************************************************************************)
Returned == hpc = "done"

\* C1: the rank fields of the returned list are exactly 1, 2, ..., N in list
\* order, whatever rank values the pages displayed for the items.
C1_DenseRanks ==
    Returned => \A i \in 1..Len(result) : result[i].rank = i

\* the ranks are dense only where the page displayed none: an item whose badge
\* was parsed keeps the displayed number
C1_MissingRanksFilled ==
    Returned => \A i \in 1..Len(result) : result[i].rank # NoRank

\* C2: no two items of the returned list have the same ASIN, whatever the
\* pages and scroll steps yielded.
C2_NoDuplicateAsins ==
    Returned =>
        \A i, j \in 1..Len(result) : i # j => result[i].asin # result[j].asin

\* a run that reached page 2, collected a non-empty page there, and returned one
\* item: everything page 2 showed was an ASIN page 1 had already yielded
C2_Witness ==
    /\ Returned
    /\ page = 3
    /\ page_products # <<>>
    /\ Len(result) = 1
    /\ page_products[1].asin = result[1].asin

\* a page of the run could not be collected in any of its retries
PageFailed == retry >= max_retries_per_page

\* the pages of the run held at most PageCapacity items each
WithinCapacity == Len(result) <= Cardinality(pagesVisited) * PageCapacity

\* ceil(max_rank / PageCapacity), computed without MaxPage
CeilPages == CHOOSE k \in 0..max_rank : k * PageCapacity >= max_rank /\ (k = 0 \/ (k - 1) * PageCapacity < max_rank)

C16_AtMostDesiredCount == Returned => Len(result) <= max_rank

\* a run asked for one item whose first page yielded two
C16_Witness ==
    /\ Returned
    /\ max_rank = 1 /\ pagesVisited = {1} /\ Len(rankings) = 2 /\ Len(result) = 1

\* the logged pages' products, one after the other
RECURSIVE Flatten(_)
Flatten(log) == IF log = <<>> THEN <<>> ELSE Head(log) \o Flatten(Tail(log))

\* a list without the items whose ASIN an earlier item of the list has
RECURSIVE KeepFirst(_)
KeepFirst(list) ==
    IF list = <<>> THEN <<>>
    ELSE LET n == Len(list)
             init == KeepFirst(SubSeq(list, 1, n - 1))
         IN  IF \E j \in 1..(n - 1) : list[j].asin = list[n].asin
             THEN init ELSE Append(init, list[n])

\* list a holds the items of list b, in b's order; a rank the page displayed is
\* unchanged
SameItems(a, b) ==
    /\ Len(a) = Len(b)
    /\ \A i \in 1..Len(b) :
           /\ a[i].asin = b[i].asin
           /\ b[i].rank # NoRank => a[i].rank = b[i].rank

C22_StopsOnlyOnCapOrExhaustion ==
    hpc = "scrolled" =>
        \/ Len(rankings) >= MaxProducts
        \/ no_change_count >= NoChangeLimit

(***************************************************************************)
(* CacheManager                                                            *)
(***************************************************************************)
\* IsoFormat that writes the date only: datetime.now().date().isoformat()
IsoFormat_DateOnly(n) == <<n \div 10>>

\* datetime.now().isoformat(): the timestamp written out as decimal digits
RECURSIVE IsoFormat(_)
IsoFormat(n) == IF n < 10 THEN <<n>> ELSE Append(IsoFormat(n \div 10), n % 10)

\* datetime.fromisoformat(text)
RECURSIVE FromIsoFormat(_)
FromIsoFormat(d) ==
    IF Len(d) = 1 THEN d[1]
    ELSE 10 * FromIsoFormat(SubSeq(d, 1, Len(d) - 1)) + d[Len(d)]

\* Expired with ">=" in place of ">"
Expired_AtTtl(entry) == now - FromIsoFormat(entry.cached_at) >= cache_ttl

\* "datetime.now() - cached_at > self.cache_ttl"
Expired(entry) == now - FromIsoFormat(entry.cached_at) > cache_ttl

\* get(asin): None when absent or expired, else the entry's data
CacheGet(k) ==
    IF k \notin DOMAIN cache_data THEN PyNone
    ELSE IF Expired(cache_data[k]) THEN PyNone
    ELSE cache_data[k].data

\* cache_data after set(asin, data)
CacheSet(k, v) ==
    [x \in (DOMAIN cache_data) \cup {k} |->
        IF x = k THEN [data |-> v, cached_at |-> IsoFormat(now)] ELSE cache_data[x]]

\* cache_data after clear_expired()
CacheClearExpired ==
    [x \in {y \in DOMAIN cache_data : ~Expired(cache_data[y])} |-> cache_data[x]]

\* the keys and payloads of the calls
CacheKeys == {"B0A", "ranking_c1"}
CachePayloads ==
    {PyList(<<>>), PyList(<<"B0A">>), PyDict("product", "B0A", ""),
     PyDict("product", "B0A", "Failed to load page")}

Call(op, k, v) ==
    [op |-> op, key |-> k, value |-> v, at |-> now,
     prev |-> [op |-> lastOp.op, key |-> lastOp.key, value |-> lastOp.value, at |-> lastOp.at]]

\* CacheManager(cache_dir, cache_ttl_hours) on an empty cache directory
CacheInit ==
    /\ now = CacheClockStart
    /\ cache_data = <<>>
    /\ cache_ttl \in 0..MaxTtl
    /\ lastOp = [op |-> "none", key |-> "", value |-> PyNone, at |-> 0, prev |-> NoCall]
    /\ lastSet = <<>>

CacheTick ==
    /\ now < CacheMaxTime
    /\ now' = now + 1
    /\ UNCHANGED <<cacheVars, notCache>>

DoSet(k, v) ==
    /\ cache_data' = CacheSet(k, v)
    /\ lastOp' = Call("set", k, v)
    /\ lastSet' = [x \in (DOMAIN lastSet) \cup {k} |->
                      IF x = k THEN [at |-> now, value |-> v] ELSE lastSet[x]]
    /\ UNCHANGED <<now, cache_ttl, notCache>>

DoGet(k) ==
    /\ lastOp' = Call("get", k, CacheGet(k))
    /\ UNCHANGED <<now, cache_data, cache_ttl, lastSet, notCache>>

DoClearExpired ==
    /\ cache_data' = CacheClearExpired
    /\ lastOp' = Call("clear_expired", "", PyNone)
    /\ UNCHANGED <<now, cache_ttl, lastSet, notCache>>

DoClearAll ==
    /\ cache_data' = <<>>
    /\ lastOp' = Call("clear_all", "", PyNone)
    /\ lastSet' = <<>>
    /\ UNCHANGED <<now, cache_ttl, notCache>>

CacheNext ==
    \/ CacheTick
    \/ \E k \in CacheKeys, v \in CachePayloads : DoSet(k, v)
    \/ \E k \in CacheKeys : DoGet(k)
    \/ DoClearExpired
    \/ DoClearAll

\* the initial states: this component as constructed, the others not in use
CacheStart == CacheInit /\ HybridIdle /\ NavRestIdle /\ PipeIdle /\ ObjIdle

SpecCache == CacheStart /\ [][CacheNext]_vars

(***************************************************************************)
(* Claims about the CacheManager                                           *)
(***************************************************************************)
\* get(k) was called right after set(k, v), with no time in between
GetRightAfterSet ==
    /\ lastOp.op = "get"
    /\ lastOp.prev.op = "set"
    /\ lastOp.prev.key = lastOp.key
    /\ lastOp.prev.at = lastOp.at

\* C10: with a positive TTL, set(k, v) immediately followed by get(k) returns v,
\* whatever set, get, clear_expired and clear_all calls came before.
C10_GetAfterSet ==
    (cache_ttl > 0 /\ GetRightAfterSet) => lastOp.value = lastOp.prev.value

\* C11: get(k) returns the payload of the last set(k, .) while at most ttl has
\* elapsed since that set, and None once more than ttl has elapsed, as it does
\* for a key that was never set (or was removed by clear_all).
C11_TtlExpiry ==
    lastOp.op = "get" =>
        IF lastOp.key \in DOMAIN lastSet
              /\ lastOp.at - lastSet[lastOp.key].at <= cache_ttl
        THEN lastOp.value = lastSet[lastOp.key].value
        ELSE lastOp.value = PyNone

\* with a positive TTL, a get(k) that returned the payload is followed, later, by
\* a get(k) that returns None because more than ttl has passed since set(k, .)
C11_Witness ==
    /\ cache_ttl > 0
    /\ lastOp.op = "get" /\ lastOp.prev.op = "get" /\ lastOp.prev.key = lastOp.key
    /\ lastOp.key \in DOMAIN lastSet
    /\ lastOp.prev.at - lastSet[lastOp.key].at = cache_ttl
    /\ lastOp.prev.value = lastSet[lastOp.key].value
    /\ lastOp.at - lastSet[lastOp.key].at > cache_ttl
    /\ lastOp.value = PyNone

\* get(k) right after set(k, v) at a two-digit timestamp, on a key that held
\* another payload before
C10_Witness ==
    /\ cache_ttl > 0
    /\ GetRightAfterSet
    /\ lastOp.at >= 10
    /\ lastOp.value = PyDict("product", "B0A", "")
    /\ "ranking_c1" \in DOMAIN cache_data

(***************************************************************************)
(* DataCollectionPipeline: collect_rankings                                *)
(***************************************************************************)
\* d[k] = v on a dict
Put(d, k, v) == [x \in (DOMAIN d) \cup {k} |-> IF x = k THEN v ELSE d[x]]

\* cache_key = f"ranking_{cat_name}"
RankKey(c) == "ranking_" \o c

\* the dict the except branch of scrape_category stores:
\* {"success": False, "error": str(e), "products": []}
RankingFailure == PyDict("ranking_failure", "", "exception")

\* what the listing of category s can show when the grid is extracted
ListingsOf(s) ==
    {<<[asin |-> "B0A", rank |-> 1, cat |-> s]>>,
     <<[asin |-> "B0A", rank |-> 1, cat |-> s], [asin |-> "B0B", rank |-> NoRank, cat |-> s]>>}

\* position of category c in all_categories
CatIndex(c) == CHOOSE i \in 1..Len(Cats) : Cats[i] = c
\* all_categories[i:i+parallel_limit]
InBatch(c, i) == i < CatIndex(c) /\ CatIndex(c) <= i + ParallelLimit
\* the tasks handed to asyncio.gather for the batch starting at i
BatchTasks(i) == [c \in CatSet |-> IF InBatch(c, i) THEN "created" ELSE "pending"]

\* DataCollectionPipeline() on an empty cache directory
PipeInit ==
    /\ ppc = "init"
    /\ runs = 1
    /\ strategy \in {"all", "top_n", "none"}
    /\ batch = 0
    /\ cpc = [c \in CatSet |-> "pending"]
    /\ hyb = [c \in CatSet |-> NoHybrid]
    /\ shown = ""
    /\ ranks = <<>>
    /\ taskResult = [c \in CatSet |-> NoResult]
    /\ toEnrich = <<>>
    /\ epc = [a \in EnrichAsins |-> "pending"]
    /\ eattempt = [a \in EnrichAsins |-> 0]
    /\ collected_products = <<>>
    /\ now = 0
    /\ cache_data = <<>>
    /\ cache_ttl = PipeTtl
    /\ lastOp = [op |-> "none", key |-> "", value |-> PyNone, at |-> 0, prev |-> NoCall]
    /\ lastSet = <<>>

enrichVars == <<toEnrich, epc, eattempt, collected_products>>
rankVars == <<cpc, hyb, shown, ranks, taskResult>>

\* run_full_pipeline enters collect_rankings: one RankScraper is opened and the
\* first batch is handed to asyncio.gather
StartRun ==
    /\ ppc = "init"
    /\ ppc' = "rankings"
    /\ batch' = 0
    /\ cpc' = BatchTasks(0)
    /\ UNCHANGED <<runs, strategy, hyb, shown, ranks, taskResult, enrichVars,
                   now, cache_data, notPipe>>

\* scrape_category up to its first await: the cache lookup, and on a miss the
\* first navigation of _scrape_with_hybrid
CatStart(c) ==
    /\ ppc = "rankings"
    /\ cpc[c] = "created"
    /\ LET cached_rankings == CacheGet(RankKey(c))
       IN  IF Truthy(cached_rankings)
           THEN /\ ranks' = Put(ranks, c, cached_rankings)
                /\ taskResult' = [taskResult EXCEPT ![c] =
                       [success |-> TRUE, cached |-> TRUE,
                        count |-> Len(cached_rankings.items), error |-> "",
                        returned |-> TRUE]]
                /\ cpc' = [cpc EXCEPT ![c] = "done"]
                /\ UNCHANGED hyb
           ELSE /\ hyb' = [hyb EXCEPT ![c] =
                       [page |-> 1, retry |-> 0, acc |-> <<>>, failedPage |-> 0]]
                /\ cpc' = [cpc EXCEPT ![c] = "nav"]
                /\ UNCHANGED <<ranks, taskResult>>
    /\ UNCHANGED <<ppc, runs, strategy, batch, shown, enrichVars, now, cache_data, notPipe>>

\* scraper.scrape returned `list`: store it, cache it, report success
CatFinish(c, list, failed) ==
    LET scraped == PyList(AssignRanks(Truncate(list, TrackTopN)))
    IN  /\ hyb' = [hyb EXCEPT ![c] = [NoHybrid EXCEPT !.failedPage = failed]]
        /\ ranks' = Put(ranks, c, scraped)
        /\ cache_data' = CacheSet(RankKey(c), scraped)
        /\ taskResult' = [taskResult EXCEPT ![c] =
               [success |-> TRUE, cached |-> FALSE, count |-> Len(scraped.items),
                error |-> "", returned |-> TRUE]]
        /\ cpc' = [cpc EXCEPT ![c] = "done"]

\* "retry += 1; continue", and after max_retries_per_page attempts the break
PageAttemptFailed(c) ==
    IF hyb[c].retry + 1 < max_retries_per_page
    THEN /\ hyb' = [hyb EXCEPT ![c].retry = @ + 1]
         /\ cpc' = [cpc EXCEPT ![c] = "delay"]
         /\ UNCHANGED <<ranks, taskResult, cache_data>>
    ELSE CatFinish(c, hyb[c].acc, hyb[c].page)

\* the asyncio.sleep before a retry, or the random_delay before the next page,
\* is over: the task calls self.goto of the shared scraper
CatDelayDone(c) ==
    /\ ppc = "rankings"
    /\ cpc[c] = "delay"
    /\ cpc' = [cpc EXCEPT ![c] = "nav"]
    /\ UNCHANGED <<ppc, runs, strategy, batch, hyb, shown, ranks, taskResult,
                   enrichVars, now, cache_data, notPipe>>

\* self.goto of the shared scraper returns to the task of category c
CatGotoDone(c, success) ==
    /\ ppc = "rankings"
    /\ cpc[c] = "nav"
    /\ IF success
       THEN /\ shown' = c
            /\ cpc' = [cpc EXCEPT ![c] = "page"]
            /\ UNCHANGED <<hyb, ranks, taskResult, cache_data>>
       ELSE /\ shown' = ""
            /\ PageAttemptFailed(c)
    /\ UNCHANGED <<ppc, runs, strategy, batch, enrichVars, now, notPipe>>

\* wait_for_selector fails or the grid of the shared page yields no product
CatPageEmpty(c) ==
    /\ ppc = "rankings"
    /\ cpc[c] = "page"
    /\ PageAttemptFailed(c)
    /\ UNCHANGED <<ppc, runs, strategy, batch, shown, enrichVars, now, notPipe>>

\* query_selector_all raises inside _extract_products_from_page: the except
\* branch of scrape_category
CatRaises(c) ==
    /\ ppc = "rankings"
    /\ cpc[c] = "page"
    /\ ranks' = Put(ranks, c, RankingFailure)
    /\ taskResult' = [taskResult EXCEPT ![c] =
           [success |-> FALSE, cached |-> FALSE, count |-> 0, error |-> "exception",
            returned |-> TRUE]]
    /\ cpc' = [cpc EXCEPT ![c] = "done"]
    /\ hyb' = [hyb EXCEPT ![c] = NoHybrid]
    /\ UNCHANGED <<ppc, runs, strategy, batch, shown, enrichVars, now,
                   cache_data, notPipe>>

\* the grid of the shared page yields `grid`: merge, then next page or return
CatPageCollected(c, grid) ==
    /\ ppc = "rankings"
    /\ cpc[c] = "page"
    /\ shown # ""
    /\ grid \in ListingsOf(shown)
    /\ LET merged == MergeUnique(hyb[c].acc, grid)
       IN  IF hyb[c].page + 1 <= MaxPage(TrackTopN) /\ Len(merged) < TrackTopN
           THEN /\ hyb' = [hyb EXCEPT ![c].page = @ + 1, ![c].retry = 0, ![c].acc = merged]
                /\ cpc' = [cpc EXCEPT ![c] = "delay"]
                /\ UNCHANGED <<ranks, taskResult, cache_data>>
           ELSE CatFinish(c, merged, 0)
    /\ UNCHANGED <<ppc, runs, strategy, batch, shown, enrichVars, now, notPipe>>

\* asyncio.gather returned for the batch: the next batch, or collect_rankings returns
BatchDone ==
    /\ ppc = "rankings"
    /\ \A c \in CatSet : InBatch(c, batch) => cpc[c] = "done"
    /\ IF batch + ParallelLimit < Len(Cats)
       THEN /\ batch' = batch + ParallelLimit
            /\ cpc' = [c \in CatSet |->
                   IF InBatch(c, batch + ParallelLimit) THEN "created" ELSE cpc[c]]
            /\ UNCHANGED ppc
       ELSE /\ ppc' = "ranked"
            /\ UNCHANGED <<batch, cpc>>
    /\ UNCHANGED <<runs, strategy, hyb, shown, ranks, taskResult, enrichVars, now,
                   cache_data, notPipe>>

(***************************************************************************)
(* DataCollectionPipeline: enrich_ranked_products                          *)
(***************************************************************************)
\* core_products of products.yaml
CoreAsins == <<"B0A">>
CoreSet == {CoreAsins[i] : i \in 1..Len(CoreAsins)}

\* the ASINs "for product in rankings" adds: a list yields its products, a dict
\* yields its string keys, which the isinstance test skips
AsinsOf(items) == {items[i].asin : i \in 1..Len(items)}
RankedAll == UNION {AsinsOf(ranks[c].items) : c \in DOMAIN ranks}
\* the same over rankings[:top_n]
RankedTopN == UNION {AsinsOf(Truncate(ranks[c].items, top_n_per_category)) : c \in DOMAIN ranks}

\* the orders in which a Python set can be listed
Arrangements(S) ==
    {q \in SeqsUpTo(S, Cardinality(S)) :
        Len(q) = Cardinality(S) /\ \A i, j \in 1..Len(q) : i # j => q[i] # q[j]}

\* asins_to_enrich[batch_start:batch_end]
InEnrichBatch(a, i) ==
    \E k \in 1..Len(toEnrich) : toEnrich[k] = a /\ i < k /\ k <= i + EnrichBatch

\* collect_rankings has returned and enrich_ranked_products builds asins_to_enrich;
\* under strategy top_n a failure dict in collected_data["ranks"] makes
\* rankings[:top_n] raise, which run_full_pipeline logs and re-raises
EnrichBegin ==
    /\ ppc = "ranked"
    /\ IF strategy = "top_n" /\ \E c \in DOMAIN ranks : ranks[c].type = "dict"
       THEN /\ ppc' = "raised"
            /\ UNCHANGED <<batch, toEnrich, epc>>
       ELSE \E extra \in Arrangements(
                (IF strategy = "all" THEN RankedAll
                 ELSE IF strategy = "top_n" THEN RankedTopN ELSE {}) \ CoreSet) :
                /\ toEnrich' = CoreAsins \o extra
                /\ batch' = 0
                /\ epc' = [a \in EnrichAsins |->
                       IF \E k \in 1..Len(toEnrich') : toEnrich'[k] = a /\ k <= EnrichBatch
                       THEN "created" ELSE "pending"]
                /\ ppc' = "enrich"
    /\ UNCHANGED <<runs, strategy, rankVars, eattempt, collected_products, now,
                   cache_data, notPipe>>

\* enrich_single_product up to its first await: the cache lookup, and on a miss
\* the navigation of ProductScraper.scrape
EnrichStart(a) ==
    /\ ppc = "enrich"
    /\ epc[a] = "created"
    /\ LET cached_data == CacheGet(a)
       IN  IF Truthy(cached_data)
           THEN /\ collected_products' = Put(collected_products, a, cached_data)
                /\ epc' = [epc EXCEPT ![a] = "done"]
                /\ UNCHANGED eattempt
           ELSE /\ eattempt' = [eattempt EXCEPT ![a] = 0]
                /\ epc' = [epc EXCEPT ![a] = "nav"]
                /\ UNCHANGED collected_products
    /\ UNCHANGED <<ppc, runs, strategy, batch, rankVars, toEnrich, now, cache_data, notPipe>>

\* scraper.scrape returned product_data: store it, cache it, return True
EnrichStore(a, product_data) ==
    /\ collected_products' = Put(collected_products, a, product_data)
    /\ cache_data' = CacheSet(a, product_data)

\* the except branch: sleep and retry, or store the error record and return False
EnrichExcept(a, stored) ==
    IF eattempt[a] < max_retries_per_product - 1
    THEN /\ eattempt' = [eattempt EXCEPT ![a] = @ + 1]
         /\ epc' = [epc EXCEPT ![a] = "delay"]
         /\ collected_products' = stored
    ELSE /\ collected_products' = Put(stored, a, PyDict("error_record", a, "exception"))
         /\ epc' = [epc EXCEPT ![a] = "done"]
         /\ eattempt' = [eattempt EXCEPT ![a] = 0]

\* "await asyncio.sleep(delay * 2)" is over: the next attempt calls scraper.scrape
EnrichDelayDone(a) ==
    /\ ppc = "enrich"
    /\ epc[a] = "delay"
    /\ epc' = [epc EXCEPT ![a] = "nav"]
    /\ UNCHANGED <<ppc, runs, strategy, batch, rankVars, toEnrich, eattempt,
                   collected_products, now, cache_data, notPipe>>

\* self.goto of the shared ProductScraper returns to the task of ASIN a
EnrichGotoDone(a, success) ==
    /\ ppc = "enrich"
    /\ epc[a] = "nav"
    /\ IF success
       THEN /\ epc' = [epc EXCEPT ![a] = "page"]
            /\ UNCHANGED <<collected_products, cache_data>>
       ELSE /\ EnrichStore(a, PyDict("error", a, "Failed to load page"))
            /\ epc' = [epc EXCEPT ![a] = "done"]
    /\ UNCHANGED <<ppc, runs, strategy, batch, rankVars, toEnrich, eattempt, now, notPipe>>

\* what ProductScraper.scrape makes of the loaded page
PageOutcomes == {"captcha", "structure", "data", "no_name", "raise"}

EnrichPageDone(a, outcome) ==
    /\ ppc = "enrich"
    /\ epc[a] = "page"
    /\ CASE outcome = "captcha" ->
              /\ EnrichStore(a, PyDict("error", a, "CAPTCHA detected"))
              /\ epc' = [epc EXCEPT ![a] = "done"]
              /\ UNCHANGED eattempt
         [] outcome = "structure" ->
              /\ EnrichStore(a, PyDict("error", a, "Invalid page structure"))
              /\ epc' = [epc EXCEPT ![a] = "done"]
              /\ UNCHANGED eattempt
         [] outcome = "data" ->
              /\ EnrichStore(a, PyDict("product", a, ""))
              /\ epc' = [epc EXCEPT ![a] = "done"]
              /\ UNCHANGED eattempt
         \* product_name is None: stored and cached, then None[:50] raises
         [] outcome = "no_name" ->
              /\ cache_data' = CacheSet(a, PyDict("product_no_name", a, ""))
              /\ EnrichExcept(a, Put(collected_products, a, PyDict("product_no_name", a, "")))
         \* page.query_selector raises inside scrape
         [] outcome = "raise" ->
              /\ EnrichExcept(a, collected_products)
              /\ UNCHANGED cache_data
    /\ UNCHANGED <<ppc, runs, strategy, batch, rankVars, toEnrich, now, notPipe>>

\* asyncio.gather returned for the batch: the next batch, or the rest of
\* run_full_pipeline up to save_raw_data
EnrichBatchDone ==
    /\ ppc = "enrich"
    /\ \A a \in EnrichAsins : InEnrichBatch(a, batch) => epc[a] = "done"
    /\ IF batch + EnrichBatch < Len(toEnrich)
       THEN /\ batch' = batch + EnrichBatch
            /\ epc' = [a \in EnrichAsins |->
                   IF InEnrichBatch(a, batch + EnrichBatch) THEN "created" ELSE epc[a]]
            /\ UNCHANGED ppc
       ELSE /\ ppc' = "done"
            /\ UNCHANGED <<batch, epc>>
    /\ UNCHANGED <<runs, strategy, rankVars, toEnrich, eattempt, collected_products,
                   now, cache_data, notPipe>>

\* time passes between two runs of the pipeline
PipeTick ==
    /\ ppc \in {"done", "raised"}
    /\ runs < MaxRuns
    /\ now < PipeMaxTime
    /\ now' = now + 1
    /\ UNCHANGED <<pipeVars, cache_data, notPipe>>

\* the next scheduled run: a new DataCollectionPipeline whose CacheManager loads
\* the cache file and clears the expired entries
NewRun ==
    /\ ppc \in {"done", "raised"}
    /\ runs < MaxRuns
    /\ runs' = runs + 1
    /\ ppc' = "init"
    /\ batch' = 0
    /\ cpc' = [c \in CatSet |-> "pending"]
    /\ hyb' = [c \in CatSet |-> NoHybrid]
    /\ shown' = ""
    /\ ranks' = <<>>
    /\ taskResult' = [c \in CatSet |-> NoResult]
    /\ toEnrich' = <<>>
    /\ epc' = [a \in EnrichAsins |-> "pending"]
    /\ eattempt' = [a \in EnrichAsins |-> 0]
    /\ collected_products' = <<>>
    /\ cache_data' = CacheClearExpired
    /\ UNCHANGED <<strategy, now, notPipe>>

PipeNext ==
    \/ StartRun
    \/ \E c \in CatSet : CatStart(c)
    \/ \E c \in CatSet, success \in BOOLEAN : CatGotoDone(c, success)
    \/ \E c \in CatSet : CatPageEmpty(c)
    \/ \E c \in CatSet : CatRaises(c)
    \/ \E c \in CatSet, grid \in UNION {ListingsOf(d) : d \in CatSet} :
           CatPageCollected(c, grid)
    \/ \E c \in CatSet : CatDelayDone(c)
    \/ BatchDone
    \/ EnrichBegin
    \/ \E a \in EnrichAsins : EnrichStart(a)
    \/ \E a \in EnrichAsins, success \in BOOLEAN : EnrichGotoDone(a, success)
    \/ \E a \in EnrichAsins, outcome \in PageOutcomes : EnrichPageDone(a, outcome)
    \/ \E a \in EnrichAsins : EnrichDelayDone(a)
    \/ EnrichBatchDone
    \/ PipeTick
    \/ NewRun

\* the initial states: this component as constructed, the others not in use
PipeStart == PipeInit /\ HybridIdle /\ NavRestIdle /\ ObjIdle

SpecPipe == PipeStart /\ [][PipeNext]_vars

(***************************************************************************)
(* Claims about the pipeline                                               *)
(***************************************************************************)
\* the tasks that are navigating or extracting through the shared scraper
RankTasksInSession == {c \in CatSet : cpc[c] \in {"nav", "page"}}
EnrichTasksInSession == {a \in EnrichAsins : epc[a] \in {"nav", "page"}}

\* C4: at any time at most one task is navigating or extracting through a given
\* scraper session, in collect_rankings and in enrich_ranked_products.
C4_OneTaskPerSession ==
    /\ Cardinality(RankTasksInSession) <= 1
    /\ Cardinality(EnrichTasksInSession) <= 1

\* page 1 of category c could not be collected in any of its retries
PageOneFailed(c) == taskResult[c].returned /\ hyb[c].failedPage = 1

\* C6: when page 1 of a target cannot be collected, the result given to the
\* orchestrator and the entry of the saved output mark the target as failed,
\* with zero items.
C6_PageOneFailureIsFailure ==
    \A c \in CatSet :
        PageOneFailed(c) =>
            /\ ~taskResult[c].success
            /\ taskResult[c].count = 0
            /\ c \in DOMAIN ranks /\ ranks[c] = RankingFailure

\* collecting category c raised, or failed as a whole
CategoryFailed(c) == taskResult[c].error = "exception" \/ PageOneFailed(c)

\* C7: once collect_rankings is over, every enabled category has been attempted
\* and has returned a result, and every category whose collection raised or
\* failed is recorded as failed; nothing was raised out of the batch.
C7_FailuresStayPerCategory ==
    ppc \in {"ranked", "enrich", "done", "raised"} =>
        \A c \in CatSet :
            /\ taskResult[c].returned
            /\ CategoryFailed(c) =>
                   /\ ~taskResult[c].success
                   /\ c \in DOMAIN ranks /\ ranks[c] = RankingFailure

\* C9: every cache entry holds the payload of a successful collection: never
\* the empty list of a ranking collection that failed, never an error result
\* of a product scrape.
C9_OnlySuccessCached ==
    \A k \in DOMAIN cache_data :
        /\ cache_data[k].data # PyList(<<>>)
        /\ cache_data[k].data.error = ""

\* C27: every item stored for a category in collected_data["ranks"] was
\* extracted from a listing page of that category, also when the categories of
\* a batch are collected concurrently.
C27_ItemsFromOwnCategory ==
    \A c \in DOMAIN ranks :
        \A i \in 1..Len(ranks[c].items) : ranks[c].items[i].cat = c

\* C28: with a failed category recorded in collected_data["ranks"] as the
\* failure dict, enrich_ranked_products runs to its end under each strategy
\* ("all", "top_n", "none"): the pipeline run does not end in an exception.
C28_EnrichSurvivesFailedCategory ==
    (\E c \in DOMAIN ranks : ranks[c] = RankingFailure) => ppc # "raised"

\* the cache holds an unexpired entry with a non-empty payload under key k
HoldsUsable(k) ==
    /\ k \in DOMAIN cache_data
    /\ now - FromIsoFormat(cache_data[k].cached_at) <= cache_ttl
    /\ \/ cache_data[k].data.type = "dict"
       \/ cache_data[k].data.type = "list" /\ cache_data[k].data.items # <<>>

HoldsEmpty(k) ==
    /\ k \in DOMAIN cache_data
    /\ now - FromIsoFormat(cache_data[k].cached_at) <= cache_ttl
    /\ cache_data[k].data = PyList(<<>>)

\* C30: a category task that looks its rankings up while the cache holds an
\* unexpired entry with zero items is not served from the cache: it goes on to
\* a live collection, starting with the navigation to page 1.
C30_EmptyEntryNotServed ==
    [][\A c \in CatSet :
          (cpc[c] = "created" /\ cpc'[c] # "created" /\ HoldsEmpty(RankKey(c))) =>
              /\ cpc'[c] = "nav"
              /\ hyb'[c].page = 1
              /\ ~taskResult'[c].cached
              /\ ranks' = ranks]_vars

\* the second run collects category c1 live although the first run's empty
\* result is still in the cache, unexpired
C30_Witness ==
    /\ runs = 2 /\ ppc = "rankings"
    /\ cpc["c1"] = "nav" /\ hyb["c1"].page = 1
    /\ HoldsEmpty(RankKey("c1"))

(***************************************************************************)
(***************************************************************************)
(* RateLimiter, driven through its public methods by one caller            *)
(***************************************************************************)
(***************************************************************************)
\* timestamps one RateLimiter holds in hour_requests at most
MaxWindow == 5

\* no task has called goto()
TasksIdle ==
    /\ gpc = [t \in Tasks |-> "idle"]
    /\ attempt = [t \in Tasks |-> 0]
    /\ wait_until = [t \in Tasks |-> "load"]
    /\ wake = [t \in Tasks |-> 0]
    /\ calls = [t \in Tasks |-> MaxGotos]
    /\ navs = [t \in Tasks |-> 0]
    /\ backoffs = [t \in Tasks |-> 0]
    /\ recs = [t \in Tasks |-> 0]
    /\ gotoResult = [t \in Tasks |-> FALSE]
    /\ transientOnly = [t \in Tasks |-> TRUE]
    /\ lastOutcome = [t \in Tasks |-> "none"]

\* RateLimiter.__init__
LimiterInit ==
    /\ now = 0
    /\ minute_requests = <<>>
    /\ hour_requests = <<>>
    /\ session_request_count = 0
    /\ rotation_threshold \in RotationThresholds
    /\ LimiterApiIdle

\* can_make_request() called at time t
AdmitsAt(t) ==
    /\ ~(Len(Purge(minute_requests, t - MinuteLen)) >= RequestsPerMinute)
    /\ ~(Len(Purge(hour_requests, t - HourLen)) >= RequestsPerHour)

\* the times at which wait_if_needed(), called now, polls can_make_request()
PollTimes == {now + k * PollTicks : k \in 0..MaxTime} \cap (0..MaxTime)

\* the poll that ends the "while not self.can_make_request()" loop
FirstAdmit == CHOOSE t \in PollTimes : AdmitsAt(t) /\ \A u \in PollTimes : u < t => ~AdmitsAt(u)

\* time passes between two calls
LimTick ==
    /\ now < MaxTime
    /\ now' = now + 1
    /\ UNCHANGED <<limiterVars, limiterApiVars>>
    /\ UNCHANGED notLimiter

\* record_request()
LimRecord ==
    /\ Len(hour_requests) < MaxWindow
    /\ RecordRequest
    /\ recorded' = recorded + 1
    /\ limCall' = "record"
    /\ UNCHANGED <<now, rotation_threshold>>
    /\ UNCHANGED notLimiter

\* can_make_request(): cleans both deques, changes nothing else
LimCanMakeRequest ==
    /\ minute_requests' = CleanMinute
    /\ hour_requests' = CleanHour
    /\ limCall' = "can"
    /\ UNCHANGED <<now, session_request_count, rotation_threshold, recorded>>
    /\ UNCHANGED notLimiter

\* wait_if_needed(): polls until a request is admitted, then sleeps the long
\* pause (when `long_pause`) and the delay; it blocks, so it is one step
LimWait(long_pause) ==
    /\ \E t \in PollTimes : AdmitsAt(t)
    /\ LET end == FirstAdmit + (IF long_pause THEN LongPauseTicks ELSE 0) + DelayTicks
       IN /\ end <= MaxTime
          /\ now' = end
    /\ minute_requests' = Purge(minute_requests, FirstAdmit - MinuteLen)
    /\ hour_requests' = Purge(hour_requests, FirstAdmit - HourLen)
    /\ limCall' = "wait"
    /\ UNCHANGED <<session_request_count, rotation_threshold, recorded>>
    /\ UNCHANGED notLimiter

\* reset_session_count()
LimReset ==
    /\ session_request_count' = 0
    /\ rotation_threshold' \in RotationThresholds
    /\ recorded' = 0
    /\ limCall' = "reset"
    /\ UNCHANGED <<now, minute_requests, hour_requests>>
    /\ UNCHANGED notLimiter

LimiterNext ==
    \/ LimTick
    \/ LimRecord
    \/ LimCanMakeRequest
    \/ \E long_pause \in BOOLEAN : LimWait(long_pause)
    \/ LimReset

LimiterStart ==
    /\ LimiterInit
    /\ NoRequests
    /\ AuxIdle
    /\ sessionGen = 0
    /\ running = NoTask
    /\ TasksIdle
    /\ SessionInit
    /\ HybridIdle
    /\ CacheIdle
    /\ PipeIdle

SpecLimiter == LimiterStart /\ [][LimiterNext]_vars

\* C17: counting the record_request() calls since construction or the last
\* reset_session_count(), should_rotate_session() is false while fewer than
\* rotation_threshold calls were made and true from the rotation_threshold-th
\* call on, whatever record_request(), wait_if_needed() and can_make_request()
\* calls follow, until reset_session_count() starts the count again.
C17_RotateFromThresholdOn ==
    ShouldRotateSession <=> recorded >= rotation_threshold

\* exactly rotation_threshold requests were recorded, then wait_if_needed() ran
C17_Witness ==
    /\ limCall = "wait"
    /\ rotation_threshold > 0
    /\ recorded = rotation_threshold
    /\ ShouldRotateSession

\* C18: the rotation threshold a RateLimiter holds, drawn at construction and
\* again by every reset_session_count(), lies between
\* session_rotation_interval - session_rotation_jitter and
\* session_rotation_interval + session_rotation_jitter.
C18_ThresholdWithinJitter ==
    /\ RotationInterval - RotationJitter <= rotation_threshold
    /\ rotation_threshold <= RotationInterval + RotationJitter

\* a reset after some requests drew the largest threshold
C18_Witness ==
    /\ limCall = "reset"
    /\ hour_requests # <<>>
    /\ rotation_threshold = RotationInterval + RotationJitter

(***************************************************************************)
(***************************************************************************)
(* BaseScraper as an async context manager: __aenter__ -> initialize(),    *)
(* the with-body, __aexit__ -> close()                                     *)
(***************************************************************************)
(***************************************************************************)
\* a field of scraper s takes value v
SetHandle(s, h, v) == handles' = [handles EXCEPT ![s][h] = v]

\* __aenter__: "await self.initialize()"
SessEnter(s) ==
    /\ spc[s] = "new"
    /\ spc' = [spc EXCEPT ![s] = "init"]
    /\ sstep' = [sstep EXCEPT ![s] = 1]
    /\ UNCHANGED <<handles, closeLog, closedFrom>>
    /\ UNCHANGED notSession

\* initialize(): async_playwright().start(), chromium.launch(), new_context(),
\* new_page() succeed in turn and set their field; step 5 is the init scripts
\* and header set-up, after which __aenter__ returns self
SessInitStep(s) ==
    /\ spc[s] = "init"
    /\ IF sstep[s] <= Len(InitOrder)
       THEN /\ SetHandle(s, InitOrder[sstep[s]], "open")
            /\ sstep' = [sstep EXCEPT ![s] = @ + 1]
            /\ spc' = spc
       ELSE /\ spc' = [spc EXCEPT ![s] = "ready"]
            /\ UNCHANGED <<handles, sstep>>
    /\ UNCHANGED <<closeLog, closedFrom>>
    /\ UNCHANGED notSession

\* initialize(): the current await raises; "except Exception ... raise" lets it
\* leave __aenter__, so the with-body and __aexit__ never run
SessInitRaises(s) ==
    /\ spc[s] = "init"
    /\ spc' = [spc EXCEPT ![s] = "init_raised"]
    /\ UNCHANGED <<handles, sstep, closeLog, closedFrom>>
    /\ UNCHANGED notSession

\* a task of the with-body enters page.goto
SessGoto(s) ==
    /\ spc[s] = "ready"
    /\ spc' = [spc EXCEPT ![s] = "nav"]
    /\ UNCHANGED <<handles, sstep, closeLog, closedFrom>>
    /\ UNCHANGED notSession

\* page.goto comes back
SessGotoDone(s) ==
    /\ spc[s] = "nav"
    /\ spc' = [spc EXCEPT ![s] = "ready"]
    /\ UNCHANGED <<handles, sstep, closeLog, closedFrom>>
    /\ UNCHANGED notSession

\* __aexit__: "await self.close()"; the with-body is left normally or by an
\* exception, possibly while a navigation of another task is in flight
SessExit(s) ==
    /\ spc[s] \in {"ready", "nav"}
    /\ closedFrom' = [closedFrom EXCEPT ![s] = spc[s]]
    /\ spc' = [spc EXCEPT ![s] = "close"]
    /\ sstep' = [sstep EXCEPT ![s] = 1]
    /\ UNCHANGED <<handles, closeLog>>
    /\ UNCHANGED notSession

\* close(): "if self.<field>: await self.<field>.close()" returns for the
\* current field; after the fourth the success line is logged and close() returns
SessCloseStep(s) ==
    /\ spc[s] = "close"
    /\ IF sstep[s] <= Len(CloseOrder)
       THEN /\ IF handles[s][CloseOrder[sstep[s]]] # "None"
               THEN SetHandle(s, CloseOrder[sstep[s]], "closed")
               ELSE handles' = handles
            /\ sstep' = [sstep EXCEPT ![s] = @ + 1]
            /\ UNCHANGED <<spc, closeLog>>
       ELSE /\ spc' = [spc EXCEPT ![s] = "closed"]
            /\ closeLog' = [closeLog EXCEPT ![s] = "ok"]
            /\ UNCHANGED <<handles, sstep>>
    /\ UNCHANGED closedFrom
    /\ UNCHANGED notSession

\* close(): the current field's close()/stop() raises; the handler around all
\* four statements logs the error and close() returns. `released` tells whether
\* the failing call had released its resource before it raised.
SessCloseRaises(s, released) ==
    /\ spc[s] = "close"
    /\ sstep[s] <= Len(CloseOrder)
    /\ handles[s][CloseOrder[sstep[s]]] # "None"
    /\ SetHandle(s, CloseOrder[sstep[s]], IF released THEN "closed" ELSE "open")
    /\ spc' = [spc EXCEPT ![s] = "closed"]
    /\ closeLog' = [closeLog EXCEPT ![s] = "error"]
    /\ UNCHANGED <<sstep, closedFrom>>
    /\ UNCHANGED notSession

SessionNext ==
    \/ \E s \in Scrapers : SessEnter(s)
    \/ \E s \in Scrapers : SessInitStep(s)
    \/ \E s \in Scrapers : SessInitRaises(s)
    \/ \E s \in Scrapers : SessGoto(s)
    \/ \E s \in Scrapers : SessGotoDone(s)
    \/ \E s \in Scrapers : SessExit(s)
    \/ \E s \in Scrapers : SessCloseStep(s)
    \/ \E s \in Scrapers, released \in BOOLEAN : SessCloseRaises(s, released)

SessionStart == SessionInit /\ LimiterApiIdle /\ NoRequests /\ AuxIdle /\ NavIdle /\ HybridIdle /\ CacheIdle /\ PipeIdle

SpecSession == SessionStart /\ [][SessionNext]_vars

\* C19: once close() has returned, none of the scraper's page, context,
\* browser and Playwright driver is still open, whether __aexit__ ran with the
\* session idle or mid-navigation and whether or not one of the close calls
\* raised; and close() always returns, it never lets an exception out.
C19_CloseReleasesEverything ==
    \A s \in Scrapers :
        /\ spc[s] \in {"new", "init", "init_raised", "ready", "nav", "close", "closed"}
        /\ spc[s] = "closed" => \A h \in Handles : handles[s][h] # "open"

(***************************************************************************)
(***************************************************************************)
(* Scraper sessions and the module-level rate_limiter they all record to   *)
(***************************************************************************)
(***************************************************************************)
\* "async with XScraper() as scraper": a new scraper object is constructed and
\* initialize() opens its browser session; initialize() does not refer to
\* rate_limiter
ShInitialize(s) ==
    /\ spc[s] \in {"new", "closed"}
    /\ spc' = [spc EXCEPT ![s] = "ready"]
    /\ handles' = [handles EXCEPT ![s] = [h \in Handles |-> "open"]]
    /\ reqs' = [reqs EXCEPT ![s] = 0]
    /\ UNCHANGED <<now, limiterVars>>
    /\ UNCHANGED notShared

\* goto() on scraper s gets a response: wait_if_needed() admitted it, then
\* rate_limiter.record_request()
ShGoto(s) ==
    /\ spc[s] = "ready"
    /\ CanMakeRequest
    /\ minute_requests' = Append(CleanMinute, now)
    /\ hour_requests' = Append(CleanHour, now)
    /\ session_request_count' = session_request_count + 1
    /\ reqs' = [reqs EXCEPT ![s] = @ + 1]
    /\ UNCHANGED <<now, rotation_threshold, spc, handles>>
    /\ UNCHANGED notShared

\* the with-block of scraper s is left: close()
ShClose(s) ==
    /\ spc[s] = "ready"
    /\ spc' = [spc EXCEPT ![s] = "closed"]
    /\ handles' = [handles EXCEPT ![s] = [h \in Handles |-> "closed"]]
    /\ UNCHANGED <<now, limiterVars, reqs>>
    /\ UNCHANGED notShared

SharedNext ==
    \/ Tick
    \/ \E s \in Scrapers : ShInitialize(s)
    \/ \E s \in Scrapers : ShGoto(s)
    \/ \E s \in Scrapers : ShClose(s)

\* importing utils.rate_limiter constructs the one RateLimiter; no scraper yet
SharedStart ==
    /\ LimiterInit
    /\ SessionInit
    /\ NoRequests
    /\ AuxIdle
    /\ sessionGen = 0
    /\ running = NoTask
    /\ TasksIdle
    /\ HybridIdle
    /\ CacheIdle
    /\ PipeIdle

SpecShared == SharedStart /\ [][SharedNext]_vars

\* C25: the rotation counter an open session rotates on counts the requests
\* made through that session since its initialize(): it is 0 when the session
\* opens and requests of other sessions do not advance it.
C25_CounterIsPerSession ==
    \A s \in Scrapers : spc[s] = "ready" => session_request_count = reqs[s]

(***************************************************************************)
(***************************************************************************)
(* RankScraper.scrape: the choice of the collection method                 *)
(***************************************************************************)
(***************************************************************************)
\* scrape calls made on one scraper
MaxScrapeCalls == 2

\* a boolean keyword argument as the caller writes it
FlagArgs == {"omitted", "True", "False"}

\* the value of a keyword parameter whose default is True
FlagValue(arg) == arg # "False"

\* "if use_hybrid: ... elif use_scroll: ... else: ..."
SelectMethod(use_scroll, use_hybrid) ==
    IF use_hybrid THEN "hybrid"
    ELSE IF use_scroll THEN "scroll"
    ELSE "pagination"

\* a caller awaits scraper.scrape(category_url=c, max_rank=n, ...)
ScrapeCall(c, n, us, uh) ==
    /\ scrapePos = "idle" /\ scrapeCalls < MaxScrapeCalls
    /\ scrapePos' = "called"
    /\ scrapeArgs' = [category |-> c, max_rank |-> n, use_scroll |-> us, use_hybrid |-> uh]
    /\ scrapeCalls' = scrapeCalls + 1
    /\ UNCHANGED scrapeMethod
    /\ UNCHANGED notScrape

\* scrape() awaits the method its flags select
ScrapeDispatch ==
    /\ scrapePos = "called"
    /\ scrapePos' = "running"
    /\ scrapeMethod' = SelectMethod(FlagValue(scrapeArgs.use_scroll),
                                    FlagValue(scrapeArgs.use_hybrid))
    /\ UNCHANGED <<scrapeArgs, scrapeCalls>>
    /\ UNCHANGED notScrape

\* the method returns its list and scrape() returns it
ScrapeReturn ==
    /\ scrapePos = "running"
    /\ scrapePos' = "idle"
    /\ UNCHANGED <<scrapeArgs, scrapeMethod, scrapeCalls>>
    /\ UNCHANGED notScrape

ScrapeNext ==
    \/ \E c \in CatSet, n \in 0..MaxRank, us \in FlagArgs, uh \in FlagArgs :
           ScrapeCall(c, n, us, uh)
    \/ ScrapeDispatch
    \/ ScrapeReturn

ScrapeStart ==
    /\ ScrapeIdle
    /\ SchedIdle
    /\ LimiterApiIdle
    /\ SessionInit
    /\ NoRequests
    /\ NavIdle
    /\ HybridIdle
    /\ CacheIdle
    /\ PipeIdle

SpecScrape == ScrapeStart /\ [][ScrapeNext]_vars

\* C26: a scrape call that passes use_scroll and leaves use_hybrid out runs
\* pagination-only collection for use_scroll=False and scroll-only collection
\* for use_scroll=True.
C26_FlagsSelectMethod ==
    (scrapePos = "running" /\ scrapeArgs.use_hybrid = "omitted") =>
        /\ scrapeArgs.use_scroll = "False" => scrapeMethod = "pagination"
        /\ scrapeArgs.use_scroll = "True" => scrapeMethod = "scroll"

(***************************************************************************)
(***************************************************************************)
(* AutomatedDataCollector: run_data_collection and _handle_failure         *)
(***************************************************************************)
(***************************************************************************)
\* retry.max_attempts of scheduler_config.yaml (default 3), scaled
max_attempts == 2
\* times the scheduler fires one job
MaxInvocations == 2

ExecutionModes == {"full", "scrape-only", "unknown"}

\* AutomatedDataCollector(): retry_count = 0; start() adds the daily job and,
\* with performance.run_on_startup, the startup job
SchedInit ==
    /\ retry_count = 0
    /\ jpc = [j \in Jobs |-> "idle"]
    /\ execs = [j \in Jobs |-> 0]
    /\ notified = [j \in Jobs |-> 0]
    /\ jobOutcome = [j \in Jobs |-> "none"]
    /\ fired = [j \in Jobs |-> 0]
    /\ run_on_startup \in BOOLEAN
    /\ retry_on_failure \in BOOLEAN
    /\ execution_mode \in ExecutionModes

schedConfig == <<run_on_startup, retry_on_failure, execution_mode>>

\* the scheduler calls run_data_collection for job j: the daily job at each
\* trigger time unless its previous instance still runs (max_instances=1), the
\* startup job once. An unknown execution_mode returns False at once.
SchedFire(j) ==
    /\ jpc[j] = "idle" /\ fired[j] < MaxInvocations
    /\ j = "startup_collection" => (run_on_startup /\ fired[j] = 0)
    /\ fired' = [fired EXCEPT ![j] = @ + 1]
    /\ notified' = [notified EXCEPT ![j] = 0]
    /\ IF execution_mode \in {"full", "scrape-only"}
       THEN /\ jpc' = [jpc EXCEPT ![j] = "pipeline"]
            /\ execs' = [execs EXCEPT ![j] = 1]
            /\ jobOutcome' = [jobOutcome EXCEPT ![j] = "running"]
       ELSE /\ execs' = [execs EXCEPT ![j] = 0]
            /\ jobOutcome' = [jobOutcome EXCEPT ![j] = "unknown_mode"]
            /\ UNCHANGED jpc
    /\ UNCHANGED <<retry_count, schedConfig>>
    /\ UNCHANGED notSched

\* the pipeline and the copy to the frontend went through: retry_count = 0,
\* return True, and every _handle_failure frame below returns
PipelineSucceeds(j) ==
    /\ jpc[j] = "pipeline"
    /\ retry_count' = 0
    /\ jpc' = [jpc EXCEPT ![j] = "idle"]
    /\ jobOutcome' = [jobOutcome EXCEPT ![j] = "success"]
    /\ UNCHANGED <<execs, notified, fired, schedConfig>>
    /\ UNCHANGED notSched

\* the pipeline raised: _handle_failure counts a retry and sleeps, or gives up,
\* notifies and resets the counter
PipelineFails(j) ==
    /\ jpc[j] = "pipeline"
    /\ IF retry_on_failure /\ retry_count < max_attempts
       THEN /\ retry_count' = retry_count + 1
            /\ jpc' = [jpc EXCEPT ![j] = "sleep"]
            /\ UNCHANGED <<notified, jobOutcome>>
       ELSE /\ notified' = [notified EXCEPT ![j] = @ + 1]
            /\ retry_count' = 0
            /\ jpc' = [jpc EXCEPT ![j] = "idle"]
            /\ jobOutcome' = [jobOutcome EXCEPT ![j] = "gave_up"]
    /\ UNCHANGED <<execs, fired, schedConfig>>
    /\ UNCHANGED notSched

\* asyncio.sleep(retry_interval * 60) is over: "await self.run_data_collection()"
RetryWake(j) ==
    /\ jpc[j] = "sleep"
    /\ jpc' = [jpc EXCEPT ![j] = "pipeline"]
    /\ execs' = [execs EXCEPT ![j] = @ + 1]
    /\ UNCHANGED <<retry_count, notified, jobOutcome, fired, schedConfig>>
    /\ UNCHANGED notSched

SchedNext ==
    \/ \E j \in Jobs : SchedFire(j)
    \/ \E j \in Jobs : PipelineSucceeds(j)
    \/ \E j \in Jobs : PipelineFails(j)
    \/ \E j \in Jobs : RetryWake(j)

SchedStart ==
    /\ SchedInit
    /\ ScrapeIdle
    /\ LimiterApiIdle
    /\ SessionInit
    /\ NoRequests
    /\ NavIdle
    /\ HybridIdle
    /\ CacheIdle
    /\ PipeIdle

SpecSched == SchedStart /\ [][SchedNext]_vars

\* C29: one invocation of run_data_collection executes the pipeline at most
\* 1 + max_attempts times; when it ends by giving up it has issued the failure
\* notification exactly once and leaves retry_count at 0; a successful
\* execution leaves retry_count at 0.
C29_BoundedRetriesOneNotification ==
    [][\A j \in Jobs :
          /\ execs'[j] <= 1 + max_attempts
          /\ (jpc[j] = "pipeline" /\ jobOutcome'[j] = "gave_up")
                => (notified'[j] = 1 /\ retry_count' = 0)
          /\ (jpc[j] = "pipeline" /\ jobOutcome'[j] = "success")
                => retry_count' = 0]_vars

====
